---- MODULE Spec2Model ----
(***************************************************************************)
(* Session lifecycle of the IAM-user session service and the MFA handling  *)
(* of the application component, against the local daemon.                 *)
(*                                                                         *)
(* JavaScript runs one task at a time; an async function runs without      *)
(* interruption from one await to the next.  Each action below is such a   *)
(* run: the invocation of an operation up to its first await, or the       *)
(* resumption of an operation by the daemon's answer (or by the user's     *)
(* answer to the dialog) up to its next await or its end.                  *)
(***************************************************************************)
EXTENDS Integers, Sequences, FiniteSets, Bags, TLC

\* Number of role-chained sessions of the loaded workspace (children of the
\* one IAM-user session of the workspace).
NumChained == 1
\* Number of ids the daemon hands out for created sessions.
MaxCreate == 1
\* Operations are invoked only while fewer than this many of the operations
\* invoked before are still waiting for the daemon.
MaxPending == 1
\* Operations are invoked only while fewer than this many daemon calls, awaited
\* or not, are unanswered.
MaxCalls == 7

VARIABLES
    sessions,      \* workspaceService.sessions: the ordered session store
    calls,         \* daemon calls issued and not yet answered (a bag)
    nextId,        \* the id the daemon assigns to the next created session
    launched,      \* ngOnInit has run
    mfaSemaphore,  \* AppComponent.mfaSemaphore
    dialogs,       \* input dialogs open on screen (a bag of session ids)
    concurrency,   \* how many operations the user has in flight at most
    ev             \* what the last step did (observation, never read by the code)

vars == <<sessions, calls, nextId, launched, mfaSemaphore, dialogs, concurrency, ev>>

-----------------------------------------------------------------------------
(* Identifiers and values *)

ChainedIds == 1..NumChained
ParentId == NumChained + 1
NewIds == (NumChained + 2)..(NumChained + 1 + MaxCreate)
\* The ids operations are invoked on and notifications name: an id the daemon
\* has not handed out yet, or the id of a deleted session, is not in the store.
AllIds == 1..(NumChained + 1 + MaxCreate)

SessionStatus == {"stopped", "loading", "active", "error"}

\* What sessions[i] reads as after an assignment beyond the end of the array.
Undefined ==
    [sessionId |-> -1, type |-> "undefined", status |-> "undefined",
     parentSessionId |-> -1, sessionName |-> "undefined"]

AwsIamUserSession(sessionName, sessionId) ==
    [sessionId |-> sessionId, type |-> "awsIamUser", status |-> "stopped",
     parentSessionId |-> 0, sessionName |-> sessionName]

AwsIamRoleChainedSession(sessionName, sessionId, parentSessionId, status) ==
    [sessionId |-> sessionId, type |-> "awsIamRoleChained", status |-> status,
     parentSessionId |-> parentSessionId, sessionName |-> sessionName]

Call(url, id, cont, arg) == [url |-> url, id |-> id, cont |-> cont, arg |-> arg]

\* The observation of a step: the code run (act) for which session (id) on
\* which input (arg), the daemon's answer that resumed it, how the run ended
\* (res: "pending" at an await, "resolved", or the error thrown), the daemon
\* calls issued and store entries removed, in program order (trace), and the
\* state the step started from (pre).
Ev(act, id, arg, daemon, res, trace) ==
    [act |-> act, id |-> id, arg |-> arg, daemon |-> daemon, res |-> res, trace |-> trace,
     pre |-> [sessions |-> sessions, calls |-> calls,
              mfaSemaphore |-> mfaSemaphore, dialogs |-> dialogs]]

RECURSIVE SeqToBag(_)
SeqToBag(s) ==
    IF s = <<>> THEN EmptyBag ELSE SetToBag({Head(s)}) (+) SeqToBag(Tail(s))

-----------------------------------------------------------------------------
(* The session store and the status helpers of the session services *)

Ids(ss) == {ss[i].sessionId : i \in DOMAIN ss} \ {-1}

\* Index of the first entry with this id, 0 if there is none.
IndexOf(ss, sessionId) ==
    LET hits == {i \in DOMAIN ss : ss[i].sessionId = sessionId}
    IN  IF hits = {} THEN 0 ELSE CHOOSE i \in hits : \A j \in hits : i <= j

get(ss, sessionId) == ss[IndexOf(ss, sessionId)]

addSession(ss, session) == Append(ss, session)

removeSession(ss, sessionId) == SelectSeq(ss, LAMBDA s : s.sessionId # sessionId)

listIamRoleChained(ss, parentSession) ==
    SelectSeq(ss, LAMBDA s : /\ s.type = "awsIamRoleChained"
                             /\ s.parentSessionId = parentSession.sessionId)

\* A helper's outcome: the store it leaves and the error it throws, if any.
Outcome(ss, err) == [s |-> ss, err |-> err]

SetStatus(ss, sessionId, status) ==
    IF IndexOf(ss, sessionId) = 0
    THEN Outcome(ss, "SessionNotFoundError")
    ELSE Outcome([ss EXCEPT ![IndexOf(ss, sessionId)].status = status], "none")

sessionLoading(ss, sessionId) == SetStatus(ss, sessionId, "loading")
sessionActivate(ss, sessionId) == SetStatus(ss, sessionId, "active")
sessionDeactivated(ss, sessionId) == SetStatus(ss, sessionId, "stopped")
sessionError(ss, sessionId) == SetStatus(ss, sessionId, "error")

-----------------------------------------------------------------------------
(* AwsIamUserService: the code of each operation between two awaits *)

\* Seeded fault: start without its catch block.
startBody_NoCatch(ss, sessionId, daemon) ==
    IF daemon = "ok" THEN sessionActivate(ss, sessionId)
                     ELSE Outcome(ss, "LeappBaseError")

\* start, after its await: sessionActivate, or the catch block.
startBody(ss, sessionId, daemon) ==
    LET r == IF daemon = "ok" THEN sessionActivate(ss, sessionId)
                              ELSE Outcome(ss, "LeappBaseError")
    IN  IF r.err = "none" THEN r ELSE sessionError(ss, sessionId)

\* Seeded fault: stop without its catch block.
stopBody_NoCatch(ss, sessionId, daemon) ==
    IF daemon = "ok" THEN sessionDeactivated(ss, sessionId)
                     ELSE Outcome(ss, "LeappBaseError")

\* stop, after its await: sessionDeactivated, or the catch block.
stopBody(ss, sessionId, daemon) ==
    LET r == IF daemon = "ok" THEN sessionDeactivated(ss, sessionId)
                              ELSE Outcome(ss, "LeappBaseError")
    IN  IF r.err = "none" THEN r ELSE sessionError(ss, sessionId)

\* Seeded fault: the DELETE of a chained session in the else branch of the
\* test of its status.
RECURSIVE forEachChained_DeleteInElse(_, _)
forEachChained_DeleteInElse(ss, chained) ==
    IF chained = <<>>
    THEN [s |-> ss, issued |-> <<>>, trace |-> <<>>]
    ELSE LET sess == Head(chained)
             active == sess.status = "active"
             rest == forEachChained_DeleteInElse(removeSession(ss, sess.sessionId),
                                                 Tail(chained))
         IN  [s |-> rest.s,
              issued |-> (IF active
                          THEN <<Call("stop", sess.sessionId, "depStop", <<>>)>>
                          ELSE <<Call("delete", sess.sessionId, "depDelete", <<>>)>>)
                         \o rest.issued,
              trace |-> (IF active THEN << <<"stop", sess.sessionId>> >>
                                   ELSE << <<"delete", sess.sessionId>> >>)
                        \o << <<"remove", sess.sessionId>> >>
                        \o rest.trace]

\* The forEach of delete over the chained sessions of the parent: the store it
\* leaves, the daemon calls it issues and the events, in program order.
RECURSIVE forEachChained(_, _)
forEachChained(ss, chained) ==
    IF chained = <<>>
    THEN [s |-> ss, issued |-> <<>>, trace |-> <<>>]
    ELSE LET sess == Head(chained)
             active == sess.status = "active"
             rest == forEachChained(removeSession(ss, sess.sessionId), Tail(chained))
         IN  [s |-> rest.s,
              issued |-> (IF active
                          THEN <<Call("stop", sess.sessionId, "depStop", <<>>)>>
                          ELSE <<>>)
                         \o <<Call("delete", sess.sessionId, "depDelete", <<>>)>>
                         \o rest.issued,
              trace |-> (IF active THEN << <<"stop", sess.sessionId>> >> ELSE <<>>)
                        \o << <<"delete", sess.sessionId>>, <<"remove", sess.sessionId>> >>
                        \o rest.trace]

\* Seeded fault: the parent deleted and removed before the forEach.
deleteCascade_ParentFirst(ss, sessionId) ==
    IF IndexOf(ss, sessionId) = 0
    THEN [s |-> sessionError(ss, sessionId).s, issued |-> <<>>, trace |-> <<>>,
          err |-> sessionError(ss, sessionId).err]
    ELSE LET r == forEachChained(ss, listIamRoleChained(ss, get(ss, sessionId)))
         IN  [s |-> removeSession(r.s, sessionId),
              issued |-> <<Call("delete", sessionId, "parentDelete", <<>>)>> \o r.issued,
              trace |-> << <<"delete", sessionId>>, <<"remove", sessionId>> >> \o r.trace,
              err |-> "none"]

\* delete from the forEach to its end (no await in between), catch included.
deleteCascade(ss, sessionId) ==
    IF IndexOf(ss, sessionId) = 0
    THEN [s |-> sessionError(ss, sessionId).s, issued |-> <<>>, trace |-> <<>>,
          err |-> sessionError(ss, sessionId).err]
    ELSE LET r == forEachChained(ss, listIamRoleChained(ss, get(ss, sessionId)))
         IN  [s |-> removeSession(r.s, sessionId),
              issued |-> r.issued \o <<Call("delete", sessionId, "parentDelete", <<>>)>>,
              trace |-> r.trace \o << <<"delete", sessionId>>, <<"remove", sessionId>> >>,
              err |-> "none"]

\* this.workspaceService.sessions[index] = session, then the spread copy.
ReplaceAt(ss, index, session) ==
    IF index <= Len(ss)
    THEN [ss EXCEPT ![index] = session]
    ELSE ss \o [i \in 1..(index - Len(ss) - 1) |-> Undefined] \o <<session>>

\* sessions.findIndex(sess => sess.sessionId === sessionId): the index found
\* (0 for none), or -1 when the callback reads sessionId of an undefined entry.
findIndex(ss, sessionId) ==
    LET index == IndexOf(ss, sessionId)
        undef == IndexOf(ss, -1)
    IN  IF undef # 0 /\ (index = 0 \/ undef < index) THEN -1 ELSE index

Result(err) == IF err = "none" THEN "resolved" ELSE err

\* The calls an operation invoked from outside is waiting for.
Awaited == {"start", "stop", "create", "update", "deleteStop"}
InFlight ==
    BagCardinality([c \in {x \in BagToSet(calls) : x.cont \in Awaited} |-> calls[c]])
MayInvoke == launched /\ InFlight < concurrency /\ BagCardinality(calls) < MaxCalls

-----------------------------------------------------------------------------
(* AwsIamUserService: actions *)

\* Seeded fault: a catch block in start that swallows the error.
start_Swallow(sessionId) ==
    /\ MayInvoke
    /\ LET r == sessionLoading(sessions, sessionId)
       IN  IF r.err = "none"
           THEN /\ sessions' = r.s
                /\ calls' = calls (+) SetToBag({Call("start", sessionId, "start", <<>>)})
                /\ ev' = Ev("start", sessionId, <<>>, "none", "pending",
                            << <<"start", sessionId>> >>)
           ELSE /\ sessions' = r.s
                /\ calls' = calls
                /\ ev' = Ev("start", sessionId, <<>>, "none", "resolved", <<>>)
    /\ UNCHANGED <<nextId, launched, mfaSemaphore, dialogs, concurrency>>

start(sessionId) ==
    /\ MayInvoke
    /\ LET r == sessionLoading(sessions, sessionId)
       IN  IF r.err = "none"
           THEN /\ sessions' = r.s
                /\ calls' = calls (+) SetToBag({Call("start", sessionId, "start", <<>>)})
                /\ ev' = Ev("start", sessionId, <<>>, "none", "pending",
                            << <<"start", sessionId>> >>)
           ELSE /\ sessions' = sessionError(r.s, sessionId).s
                /\ calls' = calls
                /\ ev' = Ev("start", sessionId, <<>>, "none",
                            Result(sessionError(r.s, sessionId).err), <<>>)
    /\ UNCHANGED <<nextId, launched, mfaSemaphore, dialogs, concurrency>>

startAwait(c, daemon) ==
    /\ c.cont = "start"
    /\ calls' = calls (-) SetToBag({c})
    /\ sessions' = startBody(sessions, c.id, daemon).s
    /\ ev' = Ev("start.done", c.id, <<>>, daemon,
                Result(startBody(sessions, c.id, daemon).err), <<>>)
    /\ UNCHANGED <<nextId, launched, mfaSemaphore, dialogs, concurrency>>

\* Seeded fault: a rotate that puts a session in error back to stopped.
rotate_ResetsError(sessionId) ==
    /\ launched
    /\ sessions' = [k \in DOMAIN sessions |->
                       IF sessions[k].sessionId = sessionId /\ sessions[k].status = "error"
                       THEN [sessions[k] EXCEPT !.status = "stopped"]
                       ELSE sessions[k]]
    /\ ev' = Ev("rotate", sessionId, <<>>, "none", "resolved", <<>>)
    /\ UNCHANGED <<calls, nextId, launched, mfaSemaphore, dialogs, concurrency>>

\* rotate, which the global timer started at launch invokes: a no-op.
rotate(sessionId) ==
    /\ launched
    /\ ev' = Ev("rotate", sessionId, <<>>, "none", "resolved", <<>>)
    /\ UNCHANGED <<sessions, calls, nextId, launched, mfaSemaphore, dialogs, concurrency>>

stop(sessionId) ==
    /\ MayInvoke
    /\ calls' = calls (+) SetToBag({Call("stop", sessionId, "stop", <<>>)})
    /\ ev' = Ev("stop", sessionId, <<>>, "none", "pending", << <<"stop", sessionId>> >>)
    /\ UNCHANGED <<sessions, nextId, launched, mfaSemaphore, dialogs, concurrency>>

\* The end of a stop nobody awaits the result of but its invoker: one invoked
\* from outside, by ngOnInit, or by the forEach of delete.
stopAwait(c, daemon) ==
    /\ c.cont \in {"stop", "launchStop", "depStop"}
    /\ calls' = calls (-) SetToBag({c})
    /\ sessions' = stopBody(sessions, c.id, daemon).s
    /\ ev' = Ev(c.cont \o ".done", c.id, <<>>, daemon,
                Result(stopBody(sessions, c.id, daemon).err), <<>>)
    /\ UNCHANGED <<nextId, launched, mfaSemaphore, dialogs, concurrency>>

create(accountName) ==
    /\ MayInvoke
    /\ calls' = calls (+) SetToBag({Call("create", 0, "create", <<accountName>>)})
    /\ ev' = Ev("create", 0, accountName, "none", "pending", << <<"create", 0>> >>)
    /\ UNCHANGED <<sessions, nextId, launched, mfaSemaphore, dialogs, concurrency>>

\* Seeded fault: the session added to the store after the try block, whatever
\* the daemon answered.
createAwait_AddAlways(c, daemon) ==
    /\ c.cont = "create"
    /\ nextId \in NewIds
    /\ calls' = calls (-) SetToBag({c})
    /\ sessions' = addSession(sessions, AwsIamUserSession(c.arg[1], nextId))
    /\ nextId' = nextId + 1
    /\ ev' = Ev("create.done", IF daemon = "ok" THEN nextId ELSE 0, <<>>, daemon,
                IF daemon = "ok" THEN "resolved" ELSE "LeappBaseError", <<>>)
    /\ UNCHANGED <<launched, mfaSemaphore, dialogs, concurrency>>

createAwait(c, daemon) ==
    /\ c.cont = "create"
    /\ daemon = "ok" => nextId \in NewIds
    /\ calls' = calls (-) SetToBag({c})
    /\ IF daemon = "ok"
       THEN /\ sessions' = addSession(sessions, AwsIamUserSession(c.arg[1], nextId))
            /\ nextId' = nextId + 1
            /\ ev' = Ev("create.done", nextId, <<>>, daemon, "resolved", <<>>)
       ELSE /\ UNCHANGED <<sessions, nextId>>
            /\ ev' = Ev("create.done", 0, <<>>, daemon, "LeappBaseError", <<>>)
    /\ UNCHANGED <<launched, mfaSemaphore, dialogs, concurrency>>

\* Seeded fault: update without the test of the index.
update_NoIndexCheck(sessionId, sessionName) ==
    /\ MayInvoke
    /\ calls' = calls (+) SetToBag({Call("edit", sessionId, "update",
             <<Len(sessions) + 1, AwsIamUserSession(sessionName, sessionId)>>)})
    /\ ev' = Ev("update", sessionId, sessionName, "none", "pending",
                << <<"edit", sessionId>> >>)
    /\ UNCHANGED <<sessions, nextId, launched, mfaSemaphore, dialogs, concurrency>>

update(sessionId, sessionName) ==
    /\ MayInvoke
    /\ LET index == findIndex(sessions, sessionId)
       IN  IF index > 0
           THEN /\ calls' = calls (+) SetToBag({Call("edit", sessionId, "update",
                        <<index, [sessions[index] EXCEPT !.sessionName = sessionName]>>)})
                /\ ev' = Ev("update", sessionId, sessionName, "none", "pending",
                            << <<"edit", sessionId>> >>)
           ELSE /\ calls' = calls
                /\ ev' = Ev("update", sessionId, sessionName, "none",
                            IF index = 0 THEN "resolved" ELSE "TypeError", <<>>)
    /\ UNCHANGED <<sessions, nextId, launched, mfaSemaphore, dialogs, concurrency>>

updateAwait(c, daemon) ==
    /\ c.cont = "update"
    /\ calls' = calls (-) SetToBag({c})
    /\ IF daemon = "ok"
       THEN /\ sessions' = ReplaceAt(sessions, c.arg[1], c.arg[2])
            /\ ev' = Ev("update.done", c.id, <<>>, daemon, "resolved", <<>>)
       ELSE /\ sessions' = sessionError(sessions, c.id).s
            /\ ev' = Ev("update.done", c.id, <<>>, daemon,
                        Result(sessionError(sessions, c.id).err), <<>>)
    /\ UNCHANGED <<nextId, launched, mfaSemaphore, dialogs, concurrency>>

delete(sessionId) ==
    /\ MayInvoke
    /\ IF IndexOf(sessions, sessionId) # 0 /\ get(sessions, sessionId).status = "active"
       THEN /\ calls' = calls (+) SetToBag({Call("stop", sessionId, "deleteStop", <<>>)})
            /\ sessions' = sessions
            /\ ev' = Ev("delete", sessionId, <<>>, "none", "pending", << <<"stop", sessionId>> >>)
       ELSE LET r == deleteCascade(sessions, sessionId)
            IN  /\ sessions' = r.s
                /\ calls' = calls (+) SeqToBag(r.issued)
                /\ ev' = Ev("delete", sessionId, <<>>, "none", Result(r.err), r.trace)
    /\ UNCHANGED <<nextId, launched, mfaSemaphore, dialogs, concurrency>>

\* Seeded fault: delete abandoned when the daemon failed the stop it awaits.
deleteAwait_StopBlocks(c, daemon) ==
    /\ c.cont = "deleteStop"
    /\ LET st == stopBody(sessions, c.id, daemon)
           r == IF st.err = "none" /\ daemon = "ok"
                THEN deleteCascade(st.s, c.id)
                ELSE [s |-> sessionError(st.s, c.id).s, issued |-> <<>>, trace |-> <<>>,
                      err |-> sessionError(st.s, c.id).err]
       IN  /\ sessions' = r.s
           /\ calls' = (calls (-) SetToBag({c})) (+) SeqToBag(r.issued)
           /\ ev' = Ev("delete.done", c.id, <<>>, daemon, Result(r.err), r.trace)
    /\ UNCHANGED <<nextId, launched, mfaSemaphore, dialogs, concurrency>>

\* delete resumed by the end of the stop it awaits.
deleteAwait(c, daemon) ==
    /\ c.cont = "deleteStop"
    /\ LET st == stopBody(sessions, c.id, daemon)
           r == IF st.err = "none"
                THEN deleteCascade(st.s, c.id)
                ELSE [s |-> sessionError(st.s, c.id).s, issued |-> <<>>, trace |-> <<>>,
                      err |-> sessionError(st.s, c.id).err]
       IN  /\ sessions' = r.s
           /\ calls' = (calls (-) SetToBag({c})) (+) SeqToBag(r.issued)
           /\ ev' = Ev("delete.done", c.id, <<>>, daemon, Result(r.err), r.trace)
    /\ UNCHANGED <<nextId, launched, mfaSemaphore, dialogs, concurrency>>

\* The answer to a DELETE that delete issued and did not await.
deleteCallAnswered(c, daemon) ==
    /\ c.cont \in {"depDelete", "parentDelete"}
    /\ calls' = calls (-) SetToBag({c})
    /\ ev' = Ev(c.cont \o ".done", c.id, <<>>, daemon,
                IF daemon = "ok" THEN "resolved" ELSE "unhandled", <<>>)
    /\ UNCHANGED <<sessions, nextId, launched, mfaSemaphore, dialogs, concurrency>>

-----------------------------------------------------------------------------
(* AppComponent: launch, and the push channel's onmessage handler *)

\* WSDaemonMessage.mfaTokenRequest, the first member of the enum.
mfaTokenRequest == 0

\* A text and what JSON.parse makes of it: a frame is the text of an object
\* {MessageType, Data}, Data the text of an object {SessionId}.
Text(valid, value) == [valid |-> valid, value |-> value]
NotJson == Text(FALSE, <<>>)
Frames ==
    {NotJson, Text(TRUE, [MessageType |-> mfaTokenRequest + 1, Data |-> NotJson])} \cup
    {Text(TRUE, [MessageType |-> mfaTokenRequest, Data |-> d]) :
        d \in {NotJson} \cup {Text(TRUE, [SessionId |-> id]) : id \in AllIds}}

\* The workspace read at launch: the IAM-user session, then its chained
\* sessions, each with the status it was saved with.
Workspace(status) ==
    <<[AwsIamUserSession("prod", ParentId) EXCEPT !.status = status[ParentId]]>>
    \o [i \in ChainedIds |-> AwsIamRoleChainedSession("chained", i, ParentId, status[i])]

\* Seeded fault: at launch, stop invoked for the active sessions only.
RECURSIVE stopAll_ActiveOnly(_)
stopAll_ActiveOnly(ss) ==
    IF ss = <<>> THEN <<>>
    ELSE (IF Head(ss).status = "active"
          THEN <<Call("stop", Head(ss).sessionId, "launchStop", <<>>)>>
          ELSE <<>>) \o stopAll_ActiveOnly(Tail(ss))

\* workspace.sessions.forEach(sess => concreteSessionService.stop(sess.sessionId))
RECURSIVE stopAll(_)
stopAll(ss) ==
    IF ss = <<>> THEN <<>>
    ELSE <<Call("stop", Head(ss).sessionId, "launchStop", <<>>)>> \o stopAll(Tail(ss))

ngOnInit ==
    /\ ~launched
    /\ launched' = TRUE
    /\ calls' = calls (+) SeqToBag(stopAll(sessions))
    /\ ev' = Ev("ngOnInit", 0, <<>>, "none", "resolved",
                [i \in DOMAIN sessions |-> <<"stop", sessions[i].sessionId>>])
    /\ UNCHANGED <<sessions, nextId, mfaSemaphore, dialogs, concurrency>>

\* Seeded fault: onmessage without the test of the semaphore.
onmessage_NoGate(evt) ==
    /\ launched
    /\ evt.valid
    /\ evt.value.MessageType = mfaTokenRequest
    /\ evt.value.Data.valid
    /\ mfaSemaphore' = TRUE
    /\ calls' = calls (+)
           SetToBag({Call("get", evt.value.Data.value.SessionId, "mfaLabel", <<>>)})
    /\ ev' = Ev("onmessage", evt.value.Data.value.SessionId, evt, "none", "pending",
                << <<"get", evt.value.Data.value.SessionId>> >>)
    /\ UNCHANGED <<sessions, nextId, launched, dialogs, concurrency>>

onmessage(evt) ==
    /\ launched
    /\ IF ~evt.valid
       THEN /\ ev' = Ev("onmessage", 0, evt, "none", "SyntaxError", <<>>)
            /\ UNCHANGED <<calls, mfaSemaphore>>
       ELSE LET data == evt.value
            IN  IF data.MessageType = mfaTokenRequest /\ ~mfaSemaphore
                THEN /\ mfaSemaphore' = TRUE
                     /\ IF ~data.Data.valid
                        THEN /\ ev' = Ev("onmessage", 0, evt, "none", "SyntaxError", <<>>)
                             /\ calls' = calls
                        ELSE LET sessionId == data.Data.value.SessionId
                             IN  /\ calls' = calls (+)
                                        SetToBag({Call("get", sessionId, "mfaLabel", <<>>)})
                                 /\ ev' = Ev("onmessage", sessionId, evt, "none", "pending",
                                             << <<"get", sessionId>> >>)
                ELSE /\ ev' = Ev("onmessage", 0, evt, "none", "resolved", <<>>)
                     /\ UNCHANGED <<calls, mfaSemaphore>>
    /\ UNCHANGED <<sessions, nextId, launched, dialogs, concurrency>>

\* onmessage resumed by the answer to the label lookup.
onmessageAwait(c, daemon) ==
    /\ c.cont = "mfaLabel"
    /\ calls' = calls (-) SetToBag({c})
    /\ IF daemon = "ok"
       THEN /\ dialogs' = dialogs (+) SetToBag({c.id})
            /\ ev' = Ev("onmessage.done", c.id, <<>>, daemon, "resolved",
                        << <<"inputDialog", c.id>> >>)
       ELSE /\ dialogs' = dialogs
            /\ ev' = Ev("onmessage.done", c.id, <<>>, daemon, "LeappBaseError", <<>>)
    /\ UNCHANGED <<sessions, nextId, launched, mfaSemaphore, concurrency>>

\* Seeded fault: the callback without the test of Constants.confirmClosed.
inputDialog_NoCancel(sessionId, res) ==
    /\ BagIn(sessionId, dialogs)
    /\ dialogs' = dialogs (-) SetToBag({sessionId})
    /\ calls' = calls (+) SetToBag({Call("confirm", sessionId, "mfaConfirm", <<>>)})
    /\ ev' = Ev("inputDialog", sessionId, res, "none", "pending",
                << <<"confirm", sessionId>> >>)
    /\ UNCHANGED <<sessions, nextId, launched, mfaSemaphore, concurrency>>

\* The callback given to inputDialog, up to its first await: res is the code
\* the user typed, or Constants.confirmClosed.
inputDialog(sessionId, res) ==
    /\ BagIn(sessionId, dialogs)
    /\ dialogs' = dialogs (-) SetToBag({sessionId})
    /\ IF res # "confirmClosed"
       THEN /\ calls' = calls (+) SetToBag({Call("confirm", sessionId, "mfaConfirm", <<>>)})
            /\ ev' = Ev("inputDialog", sessionId, res, "none", "pending",
                        << <<"confirm", sessionId>> >>)
       ELSE /\ calls' = calls (+)
                    SetToBag({Call("stop", sessionId, "mfaStop", <<"Missing Mfa Code">>)})
            /\ ev' = Ev("inputDialog", sessionId, res, "none", "pending",
                        << <<"stop", sessionId>> >>)
    /\ UNCHANGED <<sessions, nextId, launched, mfaSemaphore, concurrency>>

\* Seeded fault: the semaphore cleared when the catch block is entered, before
\* the stop it awaits.
confirmAwait_ClearsGate(c, daemon) ==
    /\ c.cont = "mfaConfirm"
    /\ mfaSemaphore' = FALSE
    /\ IF daemon = "ok"
       THEN /\ calls' = calls (-) SetToBag({c})
            /\ ev' = Ev("confirm.done", c.id, <<>>, daemon, "resolved", <<>>)
       ELSE /\ calls' = (calls (-) SetToBag({c}))
                        (+) SetToBag({Call("stop", c.id, "mfaStop", <<"Daemon Error">>)})
            /\ ev' = Ev("confirm.done", c.id, <<>>, daemon, "pending", << <<"stop", c.id>> >>)
    /\ UNCHANGED <<sessions, nextId, launched, dialogs, concurrency>>

\* The callback resumed by the answer to the confirm call.
confirmAwait(c, daemon) ==
    /\ c.cont = "mfaConfirm"
    /\ IF daemon = "ok"
       THEN /\ calls' = calls (-) SetToBag({c})
            /\ mfaSemaphore' = FALSE
            /\ ev' = Ev("confirm.done", c.id, <<>>, daemon, "resolved", <<>>)
       ELSE /\ calls' = (calls (-) SetToBag({c}))
                        (+) SetToBag({Call("stop", c.id, "mfaStop", <<"Daemon Error">>)})
            /\ mfaSemaphore' = mfaSemaphore
            /\ ev' = Ev("confirm.done", c.id, <<>>, daemon, "pending", << <<"stop", c.id>> >>)
    /\ UNCHANGED <<sessions, nextId, launched, dialogs, concurrency>>

\* The callback resumed, in its catch block, by the end of the stop it awaits
\* (c.arg holds err.message of the error caught).
mfaStopAwait(c, daemon) ==
    /\ c.cont = "mfaStop"
    /\ calls' = calls (-) SetToBag({c})
    /\ sessions' = stopBody(sessions, c.id, daemon).s
    /\ mfaSemaphore' = FALSE
    /\ ev' = Ev("mfaStop.done", c.id, c.arg[1], daemon,
                IF stopBody(sessions, c.id, daemon).err = "none"
                THEN "LeappMissingMfaTokenError"
                ELSE stopBody(sessions, c.id, daemon).err, <<>>)
    /\ UNCHANGED <<nextId, launched, dialogs, concurrency>>

-----------------------------------------------------------------------------
(* The system *)

\* The application constructed, its workspace read, nothing launched yet.
Constructed ==
    /\ \E status \in [1..(NumChained + 1) -> {"stopped", "active"}] :
           sessions = Workspace(status)
    /\ calls = EmptyBag
    /\ nextId = NumChained + 2
    /\ launched = FALSE
    /\ mfaSemaphore = FALSE
    /\ dialogs = EmptyBag
    /\ ev = Ev("init", 0, <<>>, "none", "none", <<>>)

\* A user who waits for each operation to end before invoking the next.
Init == Constructed /\ concurrency = MaxPending

\* A user who invokes one more operation while the others are still waiting
\* for the daemon.
InitRace == Constructed /\ concurrency = MaxPending + 1

Daemon == {"ok", "fail"}

LifecycleNext ==
    \/ \E id \in AllIds : start(id)
    \/ \E id \in AllIds : stop(id)
    \/ create("prod")
    \/ \E id \in AllIds : update(id, "edited")
    \/ \E id \in AllIds : delete(id)
    \/ \E c \in BagToSet(calls), d \in Daemon : startAwait(c, d)
    \/ \E c \in BagToSet(calls), d \in Daemon : stopAwait(c, d)
    \/ \E c \in BagToSet(calls), d \in Daemon : createAwait(c, d)
    \/ \E c \in BagToSet(calls), d \in Daemon : updateAwait(c, d)
    \/ \E c \in BagToSet(calls), d \in Daemon : deleteAwait(c, d)
    \/ \E c \in BagToSet(calls), d \in Daemon : deleteCallAnswered(c, d)

MfaNext ==
    \/ \E evt \in Frames : onmessage(evt)
    \/ \E c \in BagToSet(calls), d \in Daemon : onmessageAwait(c, d)
    \/ \E id \in AllIds, res \in {"123456", "confirmClosed"} : inputDialog(id, res)
    \/ \E c \in BagToSet(calls), d \in Daemon : confirmAwait(c, d)
    \/ \E c \in BagToSet(calls), d \in Daemon : mfaStopAwait(c, d)

\* The whole application.
Next == ngOnInit \/ LifecycleNext \/ MfaNext \/ \E id \in AllIds : rotate(id)

Spec == Init /\ [][Next]_vars

\* The session service alone: launch and the operations invoked from outside.
\* (The MFA handling touches the store only through stop, which is among them.)
SpecLifecycle == Init /\ [][ngOnInit \/ LifecycleNext]_vars

\* The MFA handling, with the operations that decide what its stop finds in
\* the store: the stops of the launch, start, and delete.
SpecMfa ==
    Init /\ [][\/ ngOnInit
               \/ MfaNext
               \/ \E id \in AllIds : start(id)
               \/ \E id \in AllIds : delete(id)
               \/ \E c \in BagToSet(calls), d \in Daemon : startAwait(c, d)
               \/ \E c \in BagToSet(calls), d \in Daemon : stopAwait(c, d)
               \/ \E c \in BagToSet(calls), d \in Daemon : deleteAwait(c, d)
               \/ \E c \in BagToSet(calls), d \in Daemon : deleteCallAnswered(c, d)]_vars

\* Editing and deleting sessions with one more operation in flight: an update
\* or a delete invoked while another is still waiting for the daemon.
SpecRace ==
    InitRace /\ [][\/ ngOnInit
                   \/ \E id \in AllIds : update(id, "edited")
                   \/ \E id \in AllIds : delete(id)
                   \/ \E c \in BagToSet(calls), d \in Daemon : stopAwait(c, d)
                   \/ \E c \in BagToSet(calls), d \in Daemon : updateAwait(c, d)
                   \/ \E c \in BagToSet(calls), d \in Daemon : deleteAwait(c, d)
                   \/ \E c \in BagToSet(calls), d \in Daemon : deleteCallAnswered(c, d)]_vars

\* The entries of the store under create, update and delete with one more
\* operation in flight, the daemon leaving the calls nobody awaits unanswered.
SpecStore ==
    InitRace /\ [][\/ ngOnInit
                   \/ create("prod")
                   \/ \E id \in AllIds : update(id, "edited")
                   \/ \E id \in AllIds : delete(id)
                   \/ \E c \in BagToSet(calls), d \in Daemon : createAwait(c, d)
                   \/ \E c \in BagToSet(calls), d \in Daemon : updateAwait(c, d)
                   \/ \E c \in BagToSet(calls), d \in Daemon : deleteAwait(c, d)]_vars

\* The status of the sessions: start, stop, update and the timer's rotate, with
\* the launch and the MFA handling.
SpecStatus ==
    Init /\ [][\/ ngOnInit
               \/ MfaNext
               \/ \E id \in AllIds : start(id)
               \/ \E id \in AllIds : rotate(id)
               \/ \E id \in AllIds : stop(id)
               \/ \E id \in AllIds : update(id, "edited")
               \/ \E c \in BagToSet(calls), d \in Daemon : startAwait(c, d)
               \/ \E c \in BagToSet(calls), d \in Daemon : stopAwait(c, d)
               \/ \E c \in BagToSet(calls), d \in Daemon : updateAwait(c, d)]_vars

-----------------------------------------------------------------------------
(* Vocabulary of the properties *)

Present(ss, sessionId) == \E k \in DOMAIN ss : ss[k].sessionId = sessionId

\* The status a lookup of the id finds: that of the first entry with the id.
StatusOf(ss, sessionId) ==
    LET k == CHOOSE i \in DOMAIN ss :
                 /\ ss[i].sessionId = sessionId
                 /\ \A j \in 1..(i - 1) : ss[j].sessionId # sessionId
    IN  ss[k].status

\* The store positions of the chained dependents of the id.
Dependents(ss, parentId) ==
    {k \in DOMAIN ss : ss[k].type = "awsIamRoleChained" /\ ss[k].parentSessionId = parentId}

\* Number of pending calls to a url, and to a url for an id.
CountUrl(bag, url) ==
    BagCardinality([c \in {x \in BagToSet(bag) : x.url = url} |-> bag[c]])
CountUrlId(bag, url, id) ==
    BagCardinality([c \in {x \in BagToSet(bag) : x.url = url /\ x.id = id} |-> bag[c]])

Occurrences(tr, e) == Cardinality({k \in DOMAIN tr : tr[k] = e})
Pos(tr, e) == CHOOSE k \in DOMAIN tr : tr[k] = e

\* The step ran the cascade of delete on a session that was in the store:
\* delete invoked on a session that is not active, or resumed after the stop
\* of an active one.
CascadeStep ==
    /\ ev.act \in {"delete", "delete.done"}
    /\ Present(ev.pre.sessions, ev.id)
    /\ ev.res # "pending"

MfaInFlight ==
    BagCardinality([c \in {x \in BagToSet(calls) :
                              x.cont \in {"mfaLabel", "mfaConfirm", "mfaStop"}} |-> calls[c]])

-----------------------------------------------------------------------------
(* Properties *)

\* C1: when the daemon answers the start call of a session that is in the
\* store, the session's status is active if the answer is a success and error
\* if it is a failure; it is never left loading.
C1_StartOutcome ==
    (ev.act = "start.done" /\ Present(ev.pre.sessions, ev.id)) =>
        /\ Present(sessions, ev.id)
        /\ StatusOf(sessions, ev.id) = (IF ev.daemon = "ok" THEN "active" ELSE "error")

C1_Witness ==
    /\ ev.act = "start.done"
    /\ ev.daemon = "fail"
    /\ Present(ev.pre.sessions, ev.id)
    /\ StatusOf(ev.pre.sessions, ev.id) = "loading"
    /\ StatusOf(sessions, ev.id) = "error"

C3_IssueOrder ==
    /\ (/\ ev.act = "delete"
        /\ Present(ev.pre.sessions, ev.id)
        /\ StatusOf(ev.pre.sessions, ev.id) = "active") =>
           /\ ev.res = "pending"
           /\ ev.trace = << <<"stop", ev.id>> >>
           /\ sessions = ev.pre.sessions
           /\ CountUrl(calls, "delete") = CountUrl(ev.pre.calls, "delete")
    /\ CascadeStep =>
           LET tr == ev.trace
               n == Len(tr)
               deps == Dependents(ev.pre.sessions, ev.id)
               depIds == {ev.pre.sessions[k].sessionId : k \in deps}
               entries(d, S) == Cardinality({k \in deps : /\ ev.pre.sessions[k].sessionId = d
                                                          /\ ev.pre.sessions[k].status \in S})
           IN  /\ n >= 2
               /\ tr[n - 1] = <<"delete", ev.id>>
               /\ tr[n] = <<"remove", ev.id>>
               /\ \A p \in 1..(n - 2) :
                    /\ tr[p][1] \in {"stop", "delete", "remove"}
                    /\ tr[p][2] \in depIds
                    /\ tr[p][1] = "stop" => tr[p + 1] = <<"delete", tr[p][2]>>
                    /\ tr[p][1] = "delete" => tr[p + 1] = <<"remove", tr[p][2]>>
                    /\ tr[p][1] = "remove" => p > 1 /\ tr[p - 1] = <<"delete", tr[p][2]>>
               /\ \A d \in depIds :
                    /\ Occurrences(tr, <<"delete", d>>) = entries(d, SessionStatus)
                    /\ Occurrences(tr, <<"stop", d>>) = entries(d, {"active"})

C3_Witness ==
    /\ CascadeStep
    /\ ev.act = "delete.done"
    /\ \E k \in Dependents(ev.pre.sessions, ev.id) :
          /\ ev.pre.sessions[k].status = "active"
          /\ Occurrences(ev.trace, <<"stop", ev.pre.sessions[k].sessionId>>) = 1

\* C3 as stated: the order above, and the parent is deleted and removed only
\* after the stop and DELETE calls of every dependent have completed.
C3_CompletedBeforeParent ==
    /\ C3_IssueOrder
    /\ CascadeStep =>
           \A k \in Dependents(ev.pre.sessions, ev.id) :
               /\ CountUrlId(calls, "delete", ev.pre.sessions[k].sessionId)
                     <= CountUrlId(ev.pre.calls, "delete", ev.pre.sessions[k].sessionId)
               /\ CountUrlId(calls, "stop", ev.pre.sessions[k].sessionId)
                     <= CountUrlId(ev.pre.calls, "stop", ev.pre.sessions[k].sessionId)

\* C4: at most one MFA prompt is outstanding at any time, and an MFA
\* notification that arrives while the semaphore is held is dropped: it opens
\* no dialog, issues no daemon call, and leaves the semaphore and the store as
\* they were (the handler keeps no queue of notifications).
C4_SinglePrompt ==
    /\ BagCardinality(dialogs) + MfaInFlight <= 1
    /\ (ev.act = "onmessage" /\ ev.pre.mfaSemaphore) =>
           /\ dialogs = ev.pre.dialogs
           /\ calls = ev.pre.calls
           /\ mfaSemaphore
           /\ sessions = ev.pre.sessions

C4_Witness ==
    /\ ev.act = "onmessage"
    /\ ev.pre.mfaSemaphore
    /\ BagCardinality(dialogs) = 1
    /\ ev.arg.valid
    /\ ev.arg.value.MessageType = mfaTokenRequest
    /\ ev.arg.value.Data.valid
    /\ ~BagIn(ev.arg.value.Data.value.SessionId, dialogs)

\* C5: the semaphore is held only while the handling of the notification that
\* took it is still going on: its label lookup, its dialog, its confirm call
\* or its stop is pending.  (Nothing but that handling clears the semaphore.)
C5_GateReleased ==
    mfaSemaphore => BagCardinality(dialogs) + MfaInFlight >= 1

\* C6: when the user cancels the dialog, the handler issues a stop on the
\* session of the notification and no other call (no confirm call), and when
\* that stop has been answered, for a session of the store, it throws a
\* LeappMissingMfaTokenError without issuing any further call.
C6_Cancel ==
    /\ (ev.act = "inputDialog" /\ ev.arg = "confirmClosed") =>
           /\ CountUrl(calls, "confirm") = CountUrl(ev.pre.calls, "confirm")
           /\ CountUrlId(calls, "stop", ev.id) = CountUrlId(ev.pre.calls, "stop", ev.id) + 1
           /\ BagCardinality(calls) = BagCardinality(ev.pre.calls) + 1
    /\ (/\ ev.act = "mfaStop.done"
        /\ ev.arg = "Missing Mfa Code"
        /\ Present(ev.pre.sessions, ev.id)) =>
           /\ ev.res = "LeappMissingMfaTokenError"
           /\ BagCardinality(calls) = BagCardinality(ev.pre.calls) - 1

C6_Witness ==
    /\ ev.act = "mfaStop.done"
    /\ ev.arg = "Missing Mfa Code"
    /\ Present(ev.pre.sessions, ev.id)
    /\ ev.res = "LeappMissingMfaTokenError"

\* C7: start on an id that is not in the store fails with
\* SessionNotFoundError and leaves the store as it was.
C7_StartUnknown ==
    (ev.act = "start" /\ ~Present(ev.pre.sessions, ev.id)) =>
        /\ ev.res = "SessionNotFoundError"
        /\ sessions = ev.pre.sessions

C7_Witness ==
    /\ ev.act = "start"
    /\ ~Present(ev.pre.sessions, ev.id)
    /\ ev.pre.sessions # <<>>
    /\ ev.res = "SessionNotFoundError"

\* C8: create issues exactly one call, the create call; when the daemon
\* answers with success the store gains one entry, at its end, with the id the
\* daemon returned and status stopped, the other entries unchanged; when the
\* daemon answers with failure the store is unchanged and create throws the
\* wrapping LeappBaseError.
C8_Create ==
    /\ ev.act = "create" =>
           /\ CountUrl(calls, "create") = CountUrl(ev.pre.calls, "create") + 1
           /\ BagCardinality(calls) = BagCardinality(ev.pre.calls) + 1
           /\ sessions = ev.pre.sessions
    /\ ev.act = "create.done" =>
           /\ BagCardinality(calls) = BagCardinality(ev.pre.calls) - 1
           /\ IF ev.daemon = "ok"
              THEN /\ Len(sessions) = Len(ev.pre.sessions) + 1
                   /\ SubSeq(sessions, 1, Len(ev.pre.sessions)) = ev.pre.sessions
                   /\ sessions[Len(sessions)].sessionId = ev.id
                   /\ sessions[Len(sessions)].status = "stopped"
                   /\ ~Present(ev.pre.sessions, ev.id)
                   /\ ev.res = "resolved"
              ELSE /\ sessions = ev.pre.sessions
                   /\ ev.res = "LeappBaseError"

C8_Witness ==
    /\ ev.act = "create.done"
    /\ ev.daemon = "ok"
    /\ Len(sessions) = Len(ev.pre.sessions) + 1
    /\ Len(ev.pre.sessions) >= 1

\* C9: update on an id that is not in the store issues no daemon call and
\* leaves the store as it was.
C9_UpdateAbsent ==
    (ev.act = "update" /\ ~Present(ev.pre.sessions, ev.id)) =>
        /\ calls = ev.pre.calls
        /\ sessions = ev.pre.sessions
        /\ ev.trace = <<>>

C9_Witness ==
    /\ ev.act = "update"
    /\ ~Present(ev.pre.sessions, ev.id)
    /\ ev.pre.sessions # <<>>
    /\ calls = ev.pre.calls

\* C10: a failure of the DELETE of the parent, the last call of delete, is
\* thrown to the caller of delete; a failure of the daemon call of start, stop
\* or update on a session of the store is not thrown to the caller, and the
\* session's status becomes error.
C10_Propagation ==
    /\ (ev.act = "parentDelete.done" /\ ev.daemon = "fail") => ev.res = "LeappBaseError"
    /\ (/\ ev.act \in {"start.done", "stop.done", "update.done"}
        /\ ev.daemon = "fail"
        /\ Present(ev.pre.sessions, ev.id)) =>
           /\ ev.res = "resolved"
           /\ StatusOf(sessions, ev.id) = "error"

\* C11: stop on a session of the store issues one call, the stop call, and
\* changes nothing until the daemon answers; when the daemon has answered, the
\* session's status is stopped if the answer is a success and error if it is a
\* failure, and in both cases stop resolves: nothing is thrown to its caller.
C11_StopOutcome ==
    /\ (ev.act = "stop" /\ Present(ev.pre.sessions, ev.id)) =>
           /\ CountUrlId(calls, "stop", ev.id) = CountUrlId(ev.pre.calls, "stop", ev.id) + 1
           /\ BagCardinality(calls) = BagCardinality(ev.pre.calls) + 1
           /\ sessions = ev.pre.sessions
    /\ (ev.act = "stop.done" /\ Present(ev.pre.sessions, ev.id)) =>
           /\ Present(sessions, ev.id)
           /\ StatusOf(sessions, ev.id) = (IF ev.daemon = "ok" THEN "stopped" ELSE "error")
           /\ ev.res = "resolved"
           /\ BagCardinality(calls) = BagCardinality(ev.pre.calls) - 1

C11_Witness ==
    /\ ev.act = "stop.done"
    /\ ev.daemon = "fail"
    /\ Present(ev.pre.sessions, ev.id)
    /\ StatusOf(ev.pre.sessions, ev.id) = "active"
    /\ StatusOf(sessions, ev.id) = "error"
    /\ ev.res = "resolved"

\* C12: update on an id of the store issues exactly one call, the PUT, and
\* changes nothing until the daemon answers; when the daemon answers with
\* success, the store has as many entries as before, the entry of the id is
\* the session the caller supplied, and every other entry is what it was, at
\* the position it was.
C12_UpdateReplaces ==
    /\ (ev.act = "update" /\ Present(ev.pre.sessions, ev.id)) =>
           /\ CountUrlId(calls, "edit", ev.id) = CountUrlId(ev.pre.calls, "edit", ev.id) + 1
           /\ BagCardinality(calls) = BagCardinality(ev.pre.calls) + 1
           /\ sessions = ev.pre.sessions
    /\ (ev.act = "update.done" /\ ev.daemon = "ok") =>
           /\ Len(sessions) = Len(ev.pre.sessions)
           /\ \E k \in DOMAIN sessions :
                 /\ ev.pre.sessions[k].sessionId = ev.id
                 /\ sessions[k].sessionId = ev.id
                 /\ sessions[k].sessionName = "edited"
                 /\ \A j \in DOMAIN sessions \ {k} : sessions[j] = ev.pre.sessions[j]

\* C13: every entry of the store has a status among stopped, loading, active
\* and error.
C13_ValidStatus ==
    \A k \in DOMAIN sessions : sessions[k].status \in SessionStatus

\* C14: no two entries of the store have the same sessionId.
C14_UniqueIds ==
    \A i, j \in DOMAIN sessions :
        (i # j /\ sessions[i] # Undefined) => sessions[i].sessionId # sessions[j].sessionId

\* C15: in delete on an active session of the store, when the daemon fails
\* the stop that delete awaits first, the delete goes on all the same: every
\* chained dependent has its DELETE issued and is removed from the store, the
\* DELETE of the session is issued, the session is removed from the store,
\* and delete resolves.
C15_StopFailureNoBlock ==
    (/\ ev.act = "delete.done"
     /\ ev.daemon = "fail"
     /\ Present(ev.pre.sessions, ev.id)) =>
        /\ ev.res = "resolved"
        /\ ~Present(sessions, ev.id)
        /\ Occurrences(ev.trace, <<"delete", ev.id>>) = 1
        /\ CountUrlId(calls, "delete", ev.id) = CountUrlId(ev.pre.calls, "delete", ev.id) + 1
        /\ \A k \in Dependents(ev.pre.sessions, ev.id) :
              LET d == ev.pre.sessions[k].sessionId
              IN  /\ ~Present(sessions, d)
                  /\ Occurrences(ev.trace, <<"delete", d>>) >= 1
                  /\ Occurrences(ev.trace, <<"remove", d>>) >= 1
                  /\ CountUrlId(calls, "delete", d) > CountUrlId(ev.pre.calls, "delete", d)

C15_Witness ==
    /\ ev.act = "delete.done"
    /\ ev.daemon = "fail"
    /\ Present(ev.pre.sessions, ev.id)
    /\ StatusOf(ev.pre.sessions, ev.id) = "active"
    /\ Dependents(ev.pre.sessions, ev.id) # {}
    /\ sessions = <<>>
    /\ ev.res = "resolved"

\* C16: a frame that is not JSON, or an MFA request whose Data is not JSON,
\* is dropped: the handler ends without an error, opens no dialog, issues no
\* daemon call, and leaves the semaphore and the store as they were.
C16_MalformedDropped ==
    (/\ ev.act = "onmessage"
     /\ \/ ~ev.arg.valid
        \/ /\ ev.arg.value.MessageType = mfaTokenRequest
           /\ ~ev.arg.value.Data.valid) =>
        /\ ev.res = "resolved"
        /\ dialogs = ev.pre.dialogs
        /\ calls = ev.pre.calls
        /\ mfaSemaphore = ev.pre.mfaSemaphore
        /\ sessions = ev.pre.sessions

StartOrStopStep ==
    ev.act \in {"start", "start.done", "stop.done", "launchStop.done", "depStop.done",
                "delete.done", "mfaStop.done"}

\* The step took the session of this id from status error to another status.
LeftError(id) ==
    /\ Present(ev.pre.sessions, id)
    /\ StatusOf(ev.pre.sessions, id) = "error"
    /\ Present(sessions, id)
    /\ StatusOf(sessions, id) # "error"

\* C18 (amended): a step that takes a session from status error to another
\* status is a step of a start or a stop invoked on that session, or the end
\* of an update of that session, which replaces its entry by the session the
\* caller supplied; no step of rotate and no step of any operation or MFA
\* handling of another session does it.
C18_ErrorLeftByStartStopUpdate ==
    \A id \in AllIds :
        LeftError(id) => /\ ev.id = id
                         /\ StartOrStopStep \/ ev.act = "update.done"

C18_Witness ==
    /\ ev.act = "update.done"
    /\ LeftError(ev.id)
    /\ mfaSemaphore

\* C18 as stated: a step that takes a session from status error to another
\* status is a step of a start or a stop invoked on that session.
C18_ErrorLeftByStartStop ==
    \A id \in AllIds :
        LeftError(id) => /\ ev.id = id
                         /\ StartOrStopStep

\* C19: an id that is not in the store stays out of it (but for the id a
\* create has just been given by the daemon), and the answer to a start, stop
\* or update call issued for an id that has been removed since leaves the
\* store as it was.
C19_RemovedStaysRemoved ==
    /\ ev.act # "create.done" => Ids(sessions) \subseteq Ids(ev.pre.sessions)
    /\ (/\ ev.act \in {"start.done", "stop.done", "launchStop.done", "depStop.done",
                       "mfaStop.done", "update.done"}
        /\ ~Present(ev.pre.sessions, ev.id)) =>
           sessions = ev.pre.sessions

\* The stop of the MFA handling is waiting for the daemon.
MfaStopPending(bag) == \E c \in BagToSet(bag) : c.cont = "mfaStop"

\* C20: when the daemon fails the confirm call of a code the user typed, the
\* handler issues a stop on the session of the notification, and nothing else,
\* with the semaphore still held; when that stop, or the stop of a cancelled
\* dialog, has been answered, the semaphore is cleared and, for a session of
\* the store, a LeappMissingMfaTokenError is thrown; the semaphore is held as
\* long as the stop is pending, and an MFA notification that arrives meanwhile
\* opens no dialog and issues no call.
C20_FailedConfirm ==
    /\ (ev.act = "confirm.done" /\ ev.daemon = "fail") =>
           /\ ev.trace = << <<"stop", ev.id>> >>
           /\ CountUrlId(calls, "stop", ev.id) = CountUrlId(ev.pre.calls, "stop", ev.id) + 1
           /\ BagCardinality(calls) = BagCardinality(ev.pre.calls)
           /\ sessions = ev.pre.sessions
           /\ dialogs = ev.pre.dialogs
    /\ ev.act = "mfaStop.done" =>
           /\ ev.pre.mfaSemaphore
           /\ ~mfaSemaphore
           /\ BagCardinality(calls) = BagCardinality(ev.pre.calls) - 1
           /\ Present(ev.pre.sessions, ev.id) => ev.res = "LeappMissingMfaTokenError"
    /\ MfaStopPending(calls) => mfaSemaphore
    /\ (/\ ev.act = "onmessage"
        /\ MfaStopPending(ev.pre.calls)
        /\ ev.arg.valid) =>
           /\ ev.res = "resolved"
           /\ calls = ev.pre.calls
           /\ dialogs = ev.pre.dialogs
           /\ mfaSemaphore

C20_Witness ==
    /\ ev.act = "mfaStop.done"
    /\ ev.arg = "Daemon Error"
    /\ Present(ev.pre.sessions, ev.id)
    /\ ev.res = "LeappMissingMfaTokenError"
    /\ ev.pre.mfaSemaphore
    /\ ~mfaSemaphore

====
